---- MODULE Spec2Model ----
(***************************************************************************)
(* Chain-backend bootstrap of lnd: the three implementations of            *)
(* ParseRPCParams and NewChainControlFromConfig (bitcoind, btcd,           *)
(* neutrino) and the credential discovery routines                         *)
(* extractBitcoindRPCParams and extractBtcdRPCParams.                      *)
(*                                                                         *)
(* Strings are sequences of tokens: a token is a word ("rpcuser",          *)
(* "alice"), a one-character separator ("=", ":", " ", "\n", "#") or a     *)
(* digit.  Pointers and interface values are records with a kind field;    *)
(* Nil is the nil pointer / nil interface.  Errors are strings, "nil" is   *)
(* the nil error.                                                          *)
(***************************************************************************)
EXTENDS Integers, Sequences, FiniteSets, TLC

VARIABLES
    backend,          \* which implementation of the backend interface is active
    primaryChain,     \* registeredChains.PrimaryChain(); the net argument of ParseRPCParams
    cfg,              \* *config: cfg.Bitcoin and cfg.Litecoin (Active, SimNet, RegTest)
    activeNetParams,  \* activeNetParams: Params.Name and rpcPort
    conf,             \* the backend's config struct (RPCUser, RPCPass, ZMQPath, RPCHost, ...)
    fs,               \* the file system: path -> file, for the paths the code opens
    opened,           \* the paths opened or read so far
    parseRet,         \* what ParseRPCParams returned: returned, and err (<<>> is nil)
    pc,               \* position inside NewChainControlFromConfig
    cc,               \* the *chainControl under construction
    walletConfig,     \* the btcwallet.Config local
    walletCfg,        \* the lnwallet.Config local
    cleanUp,          \* the cleanUp local (a func() or nil)
    host,             \* the bitcoindHost / btcdHost local
    rpcCert,          \* btcd's rpcCert local
    rpcConfig,        \* the *rpcclient.ConnConfig local
    dial,             \* the regtest probe: outcome of net.Dial and state of its connection
    nodeDatabase,     \* neutrino's walletdb: "none", "open", "closed"
    svc,              \* neutrino's ChainService: "none", "created", "started", "stopped"
    estimator,        \* the live fee estimator: "none", "created", "started", "stopped"
    lnw,              \* the LightningWallet: "none", "created", "started"
    ret               \* what NewChainControlFromConfig returned (cc, cleanUp, err)

vars == << backend, primaryChain, cfg, activeNetParams, conf, fs, opened, parseRet,
           pc, cc, walletConfig, walletCfg, cleanUp, host, rpcCert, rpcConfig, dial,
           nodeDatabase, svc, estimator, lnw, ret >>

parseVars == << fs, opened, parseRet >>

buildVars == << pc, cc, walletConfig, walletCfg, cleanUp, host, rpcCert, rpcConfig, dial,
                nodeDatabase, svc, estimator, lnw, ret >>

inputVars == << backend, primaryChain, cfg, activeNetParams >>

(***************************************************************************)
(* Values                                                                  *)
(***************************************************************************)
Nil == [kind |-> "nil"]

Backends == {"bitcoind", "btcd", "neutrino"}

\* chainCode values; "unknown" is any code other than bitcoinChain and litecoinChain
ChainCodes == {"bitcoin", "litecoin", "unknown"}

Networks == {"mainnet", "testnet3", "simnet", "regtest"}

Digits == <<"0", "1", "2", "3", "4", "5", "6", "7", "8", "9">>

IsDigit(c) == \E i \in 1..10 : Digits[i] = c

DigitVal(c) == (CHOOSE i \in 1..10 : Digits[i] = c) - 1

\* strings.Contains(s, tok) for a one-token needle
Contains(s, tok) == \E i \in 1..Len(s) : s[i] = tok

\* strconv.Atoi on an unsigned decimal string: ok is FALSE for the empty
\* string and for any non-digit
RECURSIVE AtoiVal(_)
AtoiVal(s) ==
    IF s = <<>> THEN 0
    ELSE 10 * AtoiVal(SubSeq(s, 1, Len(s) - 1)) + DigitVal(s[Len(s)])

Atoi(s) ==
    IF s # <<>> /\ \A i \in 1..Len(s) : IsDigit(s[i])
    THEN [ok |-> TRUE, val |-> AtoiVal(s)]
    ELSE [ok |-> FALSE, val |-> 0]

\* fmt.Sprintf("%d", n) for n >= 0
RECURSIVE Itoa(_)
Itoa(n) ==
    IF n < 10 THEN <<Digits[n + 1]>>
    ELSE Itoa(n \div 10) \o <<Digits[(n % 10) + 1]>>

\* the alternate regtest port of the bitcoind probe
AltRegtestPort == 18443

\* the fallback rate both live estimators are seeded with
FallBackFeeRate == 25

\* the offset between btcd's and bitcoind's default RPC ports
PortOffset == 2

(***************************************************************************)
(* Inputs                                                                  *)
(***************************************************************************)
\* cfg.Bitcoin / cfg.Litecoin for a primary chain on a network: one chain is
\* active, and its network flag is the only one set
ChainCfg(active, network) ==
    [Active  |-> active,
     SimNet  |-> active /\ network = "simnet",
     RegTest |-> active /\ network = "regtest"]

Cfg(chain, network) ==
    [Bitcoin  |-> ChainCfg(chain = "bitcoin", network),
     Litecoin |-> ChainCfg(chain = "litecoin", network)]

RPCHosts == { <<"localhost">>, <<"localhost", ":", "8", "3", "3", "2">> }

RpcPorts == { <<"8", "3", "3", "4">>, <<"1", "8", "3", "3", "4">>, <<"8", "x">> }

EmptyCC ==
    [routingPolicy    |-> Nil,
     feeEstimator     |-> Nil,
     chainNotifier    |-> Nil,
     chainView        |-> Nil,
     walletController |-> Nil,
     msgSigner        |-> Nil,
     signer           |-> Nil,
     chainIO          |-> Nil,
     wallet           |-> Nil]

NoDial == [attempted |-> FALSE, outcome |-> "none", conn |-> "none"]

NoRet == [returned |-> FALSE, cc |-> Nil, cleanUp |-> Nil, err |-> "nil"]

NoParseRet == [returned |-> FALSE, err |-> <<>>]

\* return c, cl, e
Return(c, cl, e) == [returned |-> TRUE, cc |-> c, cleanUp |-> cl, err |-> e]

(***************************************************************************)
(* NewChainControlFromConfig: the prologue, identical in the three files   *)
(***************************************************************************)
StaticFeeEstimator(rate) == [kind |-> "StaticFeeEstimator", FeeRate |-> rate]

RoutingPolicy(chain) == [kind |-> "ForwardingPolicy", chain |-> chain]

\* the statement after the prologue, per backend
FirstStep == [bitcoind |-> "host", btcd |-> "tls", neutrino |-> "mkdir"]

\* switch registeredChains.PrimaryChain() { ... } and walletConfig := ...
SelectRoutingPolicy ==
    /\ pc = "start"
    /\ IF primaryChain = "bitcoin"
       THEN /\ cc' = [cc EXCEPT !.routingPolicy = RoutingPolicy("bitcoin"),
                                !.feeEstimator =
                                    StaticFeeEstimator("defaultBitcoinStaticFeeRate")]
            /\ pc' = FirstStep[backend]
            /\ ret' = ret
       ELSE IF primaryChain = "litecoin"
       THEN /\ cc' = [cc EXCEPT !.routingPolicy = RoutingPolicy("litecoin"),
                                !.feeEstimator =
                                    StaticFeeEstimator("defaultLitecoinStaticFeeRate")]
            /\ pc' = FirstStep[backend]
            /\ ret' = ret
       ELSE /\ cc' = cc
            /\ pc' = "done"
            /\ ret' = Return(Nil, Nil, "Default routing policy for chain is unknown")
    /\ walletConfig' = [FeeEstimator |-> cc'.feeEstimator, ChainSource |-> Nil]
    /\ UNCHANGED << walletCfg, cleanUp, host, rpcCert, rpcConfig, dial,
                    nodeDatabase, svc, estimator, lnw >>
    /\ UNCHANGED << inputVars, conf, parseVars >>

(***************************************************************************)
(* bitcoindConfig.NewChainControlFromConfig                                *)
(***************************************************************************)
DialOutcomes == {"connected", "error", "nilconn"}

\* BitcoindHost without the conversion of line 171 back to bitcoind's port
BitcoindHost_NoOffset(outcome) ==
    IF Contains(conf.RPCHost, ":")
    THEN [ok |-> TRUE, host |-> conf.RPCHost, dial |-> NoDial]
    ELSE LET a == Atoi(activeNetParams.rpcPort)
             rpcPort == a.val
             derived == conf.RPCHost \o <<":">> \o Itoa(rpcPort)
         IN  IF ~a.ok
             THEN [ok |-> FALSE, host |-> <<>>, dial |-> NoDial]
             ELSE IF cfg.Bitcoin.Active /\ cfg.Bitcoin.RegTest
             THEN IF outcome # "connected"
                  THEN [ok |-> TRUE,
                        host |-> conf.RPCHost \o <<":">> \o Itoa(AltRegtestPort),
                        dial |-> [attempted |-> TRUE, outcome |-> outcome,
                                  conn |-> "none"]]
                  ELSE [ok |-> TRUE, host |-> derived,
                        dial |-> [attempted |-> TRUE, outcome |-> outcome,
                                  conn |-> "closed"]]
             ELSE [ok |-> TRUE, host |-> derived, dial |-> NoDial]

\* BitcoindHost with line 176 testing only err, not conn == nil
BitcoindHost_NilConnKept(outcome) ==
    IF Contains(conf.RPCHost, ":")
    THEN [ok |-> TRUE, host |-> conf.RPCHost, dial |-> NoDial]
    ELSE LET a == Atoi(activeNetParams.rpcPort)
             rpcPort == a.val - PortOffset
             derived == conf.RPCHost \o <<":">> \o Itoa(rpcPort)
         IN  IF ~a.ok
             THEN [ok |-> FALSE, host |-> <<>>, dial |-> NoDial]
             ELSE IF cfg.Bitcoin.Active /\ cfg.Bitcoin.RegTest
             THEN IF outcome = "error"
                  THEN [ok |-> TRUE,
                        host |-> conf.RPCHost \o <<":">> \o Itoa(AltRegtestPort),
                        dial |-> [attempted |-> TRUE, outcome |-> outcome,
                                  conn |-> "none"]]
                  ELSE [ok |-> TRUE, host |-> derived,
                        dial |-> [attempted |-> TRUE, outcome |-> outcome,
                                  conn |-> "closed"]]
             ELSE [ok |-> TRUE, host |-> derived, dial |-> NoDial]

\* lines 159-185: the host the bitcoind clients connect to, for one outcome
\* of the regtest probe
BitcoindHost(outcome) ==
    IF Contains(conf.RPCHost, ":")
    THEN [ok |-> TRUE, host |-> conf.RPCHost, dial |-> NoDial]
    ELSE LET a == Atoi(activeNetParams.rpcPort)
             rpcPort == a.val - PortOffset
             derived == conf.RPCHost \o <<":">> \o Itoa(rpcPort)
         IN  IF ~a.ok
             THEN [ok |-> FALSE, host |-> <<>>, dial |-> NoDial]
             ELSE IF cfg.Bitcoin.Active /\ cfg.Bitcoin.RegTest
             THEN IF outcome # "connected"
                  THEN [ok |-> TRUE,
                        host |-> conf.RPCHost \o <<":">> \o Itoa(AltRegtestPort),
                        dial |-> [attempted |-> TRUE, outcome |-> outcome,
                                  conn |-> "none"]]
                  ELSE [ok |-> TRUE, host |-> derived,
                        dial |-> [attempted |-> TRUE, outcome |-> outcome,
                                  conn |-> "closed"]]
             ELSE [ok |-> TRUE, host |-> derived, dial |-> NoDial]

Bitcoind_ResolveHost ==
    /\ pc = "host"
    /\ backend = "bitcoind"
    /\ \E outcome \in DialOutcomes :
         LET r == BitcoindHost(outcome) IN
         IF r.ok
         THEN /\ host' = r.host
              /\ dial' = r.dial
              /\ rpcConfig' = [kind |-> "ConnConfig", Host |-> r.host,
                               User |-> conf.RPCUser, Pass |-> conf.RPCPass,
                               Certificates |-> <<>>, DisableTLS |-> TRUE]
              /\ pc' = "notifier"
              /\ ret' = ret
         ELSE /\ UNCHANGED << host, dial, rpcConfig >>
              /\ pc' = "done"
              /\ ret' = Return(Nil, Nil, "strconv.Atoi: invalid syntax")
    /\ UNCHANGED << cc, walletConfig, walletCfg, cleanUp, rpcCert,
                    nodeDatabase, svc, estimator, lnw >>
    /\ UNCHANGED << inputVars, conf, parseVars >>

\* cc.chainNotifier, err = bitcoindnotify.New(rpcConfig, conf.ZMQPath, ...)
Bitcoind_NewNotifier ==
    /\ pc = "notifier"
    /\ backend = "bitcoind"
    /\ \E ok \in BOOLEAN :
         IF ok
         THEN /\ cc' = [cc EXCEPT !.chainNotifier =
                          [kind |-> "bitcoindnotify", Host |-> rpcConfig.Host,
                           zmq |-> conf.ZMQPath]]
              /\ pc' = "chainview"
              /\ ret' = ret
         ELSE /\ cc' = cc
              /\ pc' = "done"
              /\ ret' = Return(Nil, Nil, "bitcoindnotify.New failed")
    /\ UNCHANGED << walletConfig, walletCfg, cleanUp, host, rpcCert, rpcConfig, dial,
                    nodeDatabase, svc, estimator, lnw >>
    /\ UNCHANGED << inputVars, conf, parseVars >>

\* cc.chainView, err = chainview.NewBitcoindFilteredChainView(*rpcConfig, ...)
Bitcoind_NewChainView ==
    /\ pc = "chainview"
    /\ backend = "bitcoind"
    /\ \E ok \in BOOLEAN :
         IF ok
         THEN /\ cc' = [cc EXCEPT !.chainView =
                          [kind |-> "BitcoindFilteredChainView",
                           Host |-> rpcConfig.Host, zmq |-> conf.ZMQPath]]
              /\ pc' = "chainsource"
              /\ ret' = ret
         ELSE /\ cc' = cc
              /\ pc' = "done"
              /\ ret' = Return(Nil, Nil, "NewBitcoindFilteredChainView failed")
    /\ UNCHANGED << walletConfig, walletCfg, cleanUp, host, rpcCert, rpcConfig, dial,
                    nodeDatabase, svc, estimator, lnw >>
    /\ UNCHANGED << inputVars, conf, parseVars >>

\* bitcoindConn, err = chain.NewBitcoindClient(...); walletConfig.ChainSource = ...
Bitcoind_NewChainSource ==
    /\ pc = "chainsource"
    /\ backend = "bitcoind"
    /\ \E ok \in BOOLEAN :
         IF ok
         THEN /\ walletConfig' = [walletConfig EXCEPT !.ChainSource =
                          [kind |-> "BitcoindClient", Host |-> host,
                           User |-> conf.RPCUser, Pass |-> conf.RPCPass,
                           zmq |-> conf.ZMQPath]]
              /\ pc' = "fee"
              /\ ret' = ret
         ELSE /\ walletConfig' = walletConfig
              /\ pc' = "done"
              /\ ret' = Return(Nil, Nil, "NewBitcoindClient failed")
    /\ UNCHANGED << cc, walletCfg, cleanUp, host, rpcCert, rpcConfig, dial,
                    nodeDatabase, svc, estimator, lnw >>
    /\ UNCHANGED << inputVars, conf, parseVars >>

LiveFeeEstimator(impl) ==
    [kind |-> impl, Host |-> rpcConfig.Host, fallBackFeeRate |-> FallBackFeeRate]

\* the two conditions of lines 228 and 245 under which bitcoind's builder
\* re-initialises the fee estimator
BitcoindUsesLiveEstimator ==
    \/ cfg.Bitcoin.Active /\ ~cfg.Bitcoin.RegTest
    \/ cfg.Litecoin.Active

\* the outcomes of New...FeeEstimator followed by Start
EstimatorOutcomes == {"started", "newfail", "startfail"}

Bitcoind_FeeEstimator ==
    /\ pc = "fee"
    /\ backend = "bitcoind"
    /\ IF BitcoindUsesLiveEstimator
       THEN \E o \in EstimatorOutcomes :
              /\ cc' = [cc EXCEPT !.feeEstimator =
                          IF o = "newfail" THEN Nil
                          ELSE LiveFeeEstimator("BitcoindFeeEstimator")]
              /\ estimator' = CASE o = "started"   -> "started"
                                [] o = "startfail" -> "created"
                                [] o = "newfail"   -> "none"
              /\ IF o = "started"
                 THEN pc' = "wc" /\ ret' = ret
                 ELSE /\ pc' = "done"
                      /\ ret' = Return(Nil, Nil,
                            IF o = "newfail" THEN "NewBitcoindFeeEstimator failed"
                            ELSE "feeEstimator.Start failed")
       ELSE /\ pc' = "wc"
            /\ UNCHANGED << cc, estimator, ret >>
    /\ UNCHANGED << walletConfig, walletCfg, cleanUp, host, rpcCert, rpcConfig, dial,
                    nodeDatabase, svc, lnw >>
    /\ UNCHANGED << inputVars, conf, parseVars >>

(***************************************************************************)
(* NewChainControlFromConfig: the epilogue, identical in the three files   *)
(***************************************************************************)
\* NewWalletController with its failure path returning the cleanUp local
\* instead of nil
NewWalletController_ReturnsCleanUp ==
    /\ pc = "wc"
    /\ \E ok \in BOOLEAN :
         IF ok
         THEN LET wc == [kind |-> "BtcWallet", cfg |-> walletConfig] IN
              /\ cc' = [cc EXCEPT !.msgSigner = wc, !.signer = wc, !.chainIO = wc]
              /\ walletCfg' = [Notifier         |-> cc.chainNotifier,
                               WalletController |-> wc,
                               Signer           |-> wc,
                               FeeEstimator     |-> cc.feeEstimator,
                               ChainIO          |-> wc]
              /\ pc' = "lnwallet"
              /\ ret' = ret
         ELSE /\ UNCHANGED << cc, walletCfg >>
              /\ pc' = "done"
              /\ ret' = Return(Nil, cleanUp, "unable to create wallet controller")
    /\ UNCHANGED << walletConfig, cleanUp, host, rpcCert, rpcConfig, dial,
                    nodeDatabase, svc, estimator, lnw >>
    /\ UNCHANGED << inputVars, conf, parseVars >>

\* NewWalletController without the assignment cc.chainIO = wc
NewWalletController_NoChainIO ==
    /\ pc = "wc"
    /\ \E ok \in BOOLEAN :
         IF ok
         THEN LET wc == [kind |-> "BtcWallet", cfg |-> walletConfig] IN
              /\ cc' = [cc EXCEPT !.msgSigner = wc, !.signer = wc]
              /\ walletCfg' = [Notifier         |-> cc.chainNotifier,
                               WalletController |-> wc,
                               Signer           |-> wc,
                               FeeEstimator     |-> cc.feeEstimator,
                               ChainIO          |-> wc]
              /\ pc' = "lnwallet"
              /\ ret' = ret
         ELSE /\ UNCHANGED << cc, walletCfg >>
              /\ pc' = "done"
              /\ ret' = Return(Nil, Nil, "unable to create wallet controller")
    /\ UNCHANGED << walletConfig, cleanUp, host, rpcCert, rpcConfig, dial,
                    nodeDatabase, svc, estimator, lnw >>
    /\ UNCHANGED << inputVars, conf, parseVars >>

\* wc, err := btcwallet.New(*walletConfig); cc.msgSigner = wc; cc.signer = wc;
\* cc.chainIO = wc; walletCfg := lnwallet.Config{...}
NewWalletController ==
    /\ pc = "wc"
    /\ \E ok \in BOOLEAN :
         IF ok
         THEN LET wc == [kind |-> "BtcWallet", cfg |-> walletConfig] IN
              /\ cc' = [cc EXCEPT !.msgSigner = wc, !.signer = wc, !.chainIO = wc]
              /\ walletCfg' = [Notifier         |-> cc.chainNotifier,
                               WalletController |-> wc,
                               Signer           |-> wc,
                               FeeEstimator     |-> cc.feeEstimator,
                               ChainIO          |-> wc]
              /\ pc' = "lnwallet"
              /\ ret' = ret
         ELSE /\ UNCHANGED << cc, walletCfg >>
              /\ pc' = "done"
              /\ ret' = Return(Nil, Nil, "unable to create wallet controller")
    /\ UNCHANGED << walletConfig, cleanUp, host, rpcCert, rpcConfig, dial,
                    nodeDatabase, svc, estimator, lnw >>
    /\ UNCHANGED << inputVars, conf, parseVars >>

\* wallet, err := lnwallet.NewLightningWallet(walletCfg)
NewLightningWallet ==
    /\ pc = "lnwallet"
    /\ \E ok \in BOOLEAN :
         IF ok
         THEN /\ lnw' = "created"
              /\ pc' = "startup"
              /\ ret' = ret
         ELSE /\ lnw' = lnw
              /\ pc' = "done"
              /\ ret' = Return(Nil, Nil, "unable to create wallet")
    /\ UNCHANGED << cc, walletConfig, walletCfg, cleanUp, host, rpcCert, rpcConfig,
                    dial, nodeDatabase, svc, estimator >>
    /\ UNCHANGED << inputVars, conf, parseVars >>

\* wallet.Startup(); cc.wallet = wallet; return cc, cleanUp, nil
WalletStartup ==
    /\ pc = "startup"
    /\ \E ok \in BOOLEAN :
         IF ok
         THEN /\ lnw' = "started"
              /\ cc' = [cc EXCEPT !.wallet =
                          [kind |-> "LightningWallet", Cfg |-> walletCfg]]
              /\ ret' = Return(cc', cleanUp, "nil")
         ELSE /\ UNCHANGED << lnw, cc >>
              /\ ret' = Return(Nil, Nil, "unable to start wallet")
    /\ pc' = "done"
    /\ UNCHANGED << walletConfig, walletCfg, cleanUp, host, rpcCert, rpcConfig,
                    dial, nodeDatabase, svc, estimator >>
    /\ UNCHANGED << inputVars, conf, parseVars >>

(***************************************************************************)
(* btcdConfig.NewChainControlFromConfig                                    *)
(***************************************************************************)
HexDigits == <<"0", "1", "2", "3", "4", "5", "6", "7", "8", "9",
               "a", "b", "c", "d", "e", "f">>

IsHex(c) == \E i \in 1..16 : HexDigits[i] = c

HexVal(c) == (CHOOSE i \in 1..16 : HexDigits[i] = c) - 1

RECURSIVE HexBytes(_)
HexBytes(s) ==
    IF Len(s) < 2 THEN <<>>
    ELSE <<16 * HexVal(s[1]) + HexVal(s[2])>> \o HexBytes(SubSeq(s, 3, Len(s)))

\* hex.DecodeString: an odd length or a non-hex character is an error
HexDecodeString(s) ==
    IF Len(s) % 2 = 0 /\ \A i \in 1..Len(s) : IsHex(s[i])
    THEN [ok |-> TRUE, bytes |-> HexBytes(s)]
    ELSE [ok |-> FALSE, bytes |-> <<>>]

MissingFile == [state |-> "missing", content |-> <<>>]

\* the file at a path: state is "ok", "readerr" (ReadAll fails), "closeerr"
\* (Close fails) or "missing" (Open fails)
FileAt(path) == IF path \in DOMAIN fs THEN fs[path] ELSE MissingFile

\* lines 152-170: rpcCert and the error of loading it
LoadRPCCert ==
    IF conf.RawRPCCert # <<>>
    THEN LET d == HexDecodeString(conf.RawRPCCert) IN
         IF d.ok THEN [err |-> "nil", bytes |-> d.bytes, opens |-> {}]
         ELSE [err |-> "hex.DecodeString failed", bytes |-> <<>>, opens |-> {}]
    ELSE LET f == FileAt(conf.RPCCert) IN
         CASE f.state = "missing"  ->
                [err |-> "os.Open failed", bytes |-> <<>>, opens |-> {conf.RPCCert}]
           [] f.state = "readerr"  ->
                [err |-> "ioutil.ReadAll failed", bytes |-> <<>>,
                 opens |-> {conf.RPCCert}]
           [] f.state = "closeerr" ->
                [err |-> "certFile.Close failed", bytes |-> f.content,
                 opens |-> {conf.RPCCert}]
           [] OTHER ->
                [err |-> "nil", bytes |-> f.content, opens |-> {conf.RPCCert}]

Btcd_LoadTLS ==
    /\ pc = "tls"
    /\ backend = "btcd"
    /\ LET r == LoadRPCCert IN
         /\ opened' = opened \cup r.opens
         /\ IF r.err = "nil"
            THEN /\ rpcCert' = r.bytes
                 /\ pc' = "host"
                 /\ ret' = ret
            ELSE /\ rpcCert' = rpcCert
                 /\ pc' = "done"
                 /\ ret' = Return(Nil, Nil, r.err)
    /\ UNCHANGED << cc, walletConfig, walletCfg, cleanUp, host, rpcConfig, dial,
                    nodeDatabase, svc, estimator, lnw >>
    /\ UNCHANGED << inputVars, conf, fs, parseRet >>

\* lines 176-182
BtcdHost ==
    IF Contains(conf.RPCHost, ":") THEN conf.RPCHost
    ELSE conf.RPCHost \o <<":">> \o activeNetParams.rpcPort

Btcd_ResolveHost ==
    /\ pc = "host"
    /\ backend = "btcd"
    /\ host' = BtcdHost
    /\ rpcConfig' = [kind |-> "ConnConfig", Host |-> BtcdHost,
                     User |-> conf.RPCUser, Pass |-> conf.RPCPass,
                     Certificates |-> rpcCert, DisableTLS |-> FALSE]
    /\ pc' = "notifier"
    /\ UNCHANGED << cc, walletConfig, walletCfg, cleanUp, rpcCert, dial,
                    nodeDatabase, svc, estimator, lnw, ret >>
    /\ UNCHANGED << inputVars, conf, parseVars >>

\* cc.chainNotifier, err = btcdnotify.New(rpcConfig)
Btcd_NewNotifier ==
    /\ pc = "notifier"
    /\ backend = "btcd"
    /\ \E ok \in BOOLEAN :
         IF ok
         THEN /\ cc' = [cc EXCEPT !.chainNotifier =
                          [kind |-> "btcdnotify", Host |-> rpcConfig.Host,
                           Certificates |-> rpcConfig.Certificates]]
              /\ pc' = "chainview"
              /\ ret' = ret
         ELSE /\ cc' = cc
              /\ pc' = "done"
              /\ ret' = Return(Nil, Nil, "btcdnotify.New failed")
    /\ UNCHANGED << walletConfig, walletCfg, cleanUp, host, rpcCert, rpcConfig, dial,
                    nodeDatabase, svc, estimator, lnw >>
    /\ UNCHANGED << inputVars, conf, parseVars >>

\* cc.chainView, err = chainview.NewBtcdFilteredChainView(*rpcConfig)
Btcd_NewChainView ==
    /\ pc = "chainview"
    /\ backend = "btcd"
    /\ \E ok \in BOOLEAN :
         IF ok
         THEN /\ cc' = [cc EXCEPT !.chainView =
                          [kind |-> "BtcdFilteredChainView", Host |-> rpcConfig.Host,
                           Certificates |-> rpcConfig.Certificates]]
              /\ pc' = "chainsource"
              /\ ret' = ret
         ELSE /\ cc' = cc
              /\ pc' = "done"
              /\ ret' = Return(Nil, Nil, "NewBtcdFilteredChainView failed")
    /\ UNCHANGED << walletConfig, walletCfg, cleanUp, host, rpcCert, rpcConfig, dial,
                    nodeDatabase, svc, estimator, lnw >>
    /\ UNCHANGED << inputVars, conf, parseVars >>

\* chainRPC, err := chain.NewRPCClient(...); walletConfig.ChainSource = chainRPC
Btcd_NewChainSource ==
    /\ pc = "chainsource"
    /\ backend = "btcd"
    /\ \E ok \in BOOLEAN :
         IF ok
         THEN /\ walletConfig' = [walletConfig EXCEPT !.ChainSource =
                          [kind |-> "RPCClient", Host |-> host,
                           User |-> conf.RPCUser, Pass |-> conf.RPCPass,
                           Certificates |-> rpcCert]]
              /\ pc' = "fee"
              /\ ret' = ret
         ELSE /\ walletConfig' = walletConfig
              /\ pc' = "done"
              /\ ret' = Return(Nil, Nil, "NewRPCClient failed")
    /\ UNCHANGED << cc, walletCfg, cleanUp, host, rpcCert, rpcConfig, dial,
                    nodeDatabase, svc, estimator, lnw >>
    /\ UNCHANGED << inputVars, conf, parseVars >>

\* the condition of lines 221-222
BtcdUsesLiveEstimator ==
    /\ ~cfg.Bitcoin.SimNet
    /\ ~cfg.Litecoin.SimNet
    /\ ~cfg.Bitcoin.RegTest
    /\ ~cfg.Litecoin.RegTest

Btcd_FeeEstimator ==
    /\ pc = "fee"
    /\ backend = "btcd"
    /\ IF BtcdUsesLiveEstimator
       THEN \E o \in EstimatorOutcomes :
              /\ cc' = [cc EXCEPT !.feeEstimator =
                          IF o = "newfail" THEN Nil
                          ELSE LiveFeeEstimator("BtcdFeeEstimator")]
              /\ estimator' = CASE o = "started"   -> "started"
                                [] o = "startfail" -> "created"
                                [] o = "newfail"   -> "none"
              /\ IF o = "started"
                 THEN pc' = "wc" /\ ret' = ret
                 ELSE /\ pc' = "done"
                      /\ ret' = Return(Nil, Nil,
                            IF o = "newfail" THEN "NewBtcdFeeEstimator failed"
                            ELSE "feeEstimator.Start failed")
       ELSE /\ pc' = "wc"
            /\ UNCHANGED << cc, estimator, ret >>
    /\ UNCHANGED << walletConfig, walletCfg, cleanUp, host, rpcCert, rpcConfig, dial,
                    nodeDatabase, svc, lnw >>
    /\ UNCHANGED << inputVars, conf, parseVars >>

(***************************************************************************)
(* neutrinoConfig.NewChainControlFromConfig                                *)
(***************************************************************************)
\* os.MkdirAll(neutrinoDbPath, 0700)
Neutrino_MkdirAll ==
    /\ pc = "mkdir"
    /\ backend = "neutrino"
    /\ \E ok \in BOOLEAN :
         IF ok
         THEN pc' = "dbcreate" /\ ret' = ret
         ELSE pc' = "done" /\ ret' = Return(Nil, Nil, "os.MkdirAll failed")
    /\ UNCHANGED << cc, walletConfig, walletCfg, cleanUp, host, rpcCert, rpcConfig,
                    dial, nodeDatabase, svc, estimator, lnw >>
    /\ UNCHANGED << inputVars, conf, parseVars >>

\* nodeDatabase, err := walletdb.Create("bdb", dbName)
Neutrino_CreateDatabase ==
    /\ pc = "dbcreate"
    /\ backend = "neutrino"
    /\ \E ok \in BOOLEAN :
         IF ok
         THEN /\ nodeDatabase' = "open"
              /\ pc' = "newsvc"
              /\ ret' = ret
         ELSE /\ nodeDatabase' = nodeDatabase
              /\ pc' = "done"
              /\ ret' = Return(Nil, Nil, "walletdb.Create failed")
    /\ UNCHANGED << cc, walletConfig, walletCfg, cleanUp, host, rpcCert, rpcConfig,
                    dial, svc, estimator, lnw >>
    /\ UNCHANGED << inputVars, conf, parseVars >>

\* svc, err := neutrino.NewChainService(config); svc.Start()
Neutrino_NewChainService ==
    /\ pc = "newsvc"
    /\ backend = "neutrino"
    /\ \E ok \in BOOLEAN :
         IF ok
         THEN /\ svc' = "started"
              /\ pc' = "notifier"
              /\ ret' = ret
         ELSE /\ svc' = svc
              /\ pc' = "done"
              /\ ret' = Return(Nil, Nil, "unable to create neutrino")
    /\ UNCHANGED << cc, walletConfig, walletCfg, cleanUp, host, rpcCert, rpcConfig,
                    dial, nodeDatabase, estimator, lnw >>
    /\ UNCHANGED << inputVars, conf, parseVars >>

\* cc.chainNotifier, err = neutrinonotify.New(svc)
Neutrino_NewNotifier ==
    /\ pc = "notifier"
    /\ backend = "neutrino"
    /\ \E ok \in BOOLEAN :
         IF ok
         THEN /\ cc' = [cc EXCEPT !.chainNotifier =
                          [kind |-> "neutrinonotify", svc |-> "svc"]]
              /\ pc' = "chainview"
              /\ ret' = ret
         ELSE /\ cc' = cc
              /\ pc' = "done"
              /\ ret' = Return(Nil, Nil, "neutrinonotify.New failed")
    /\ UNCHANGED << walletConfig, walletCfg, cleanUp, host, rpcCert, rpcConfig, dial,
                    nodeDatabase, svc, estimator, lnw >>
    /\ UNCHANGED << inputVars, conf, parseVars >>

\* cc.chainView, err = chainview.NewCfFilteredChainView(svc)
Neutrino_NewChainView ==
    /\ pc = "chainview"
    /\ backend = "neutrino"
    /\ \E ok \in BOOLEAN :
         IF ok
         THEN /\ cc' = [cc EXCEPT !.chainView =
                          [kind |-> "CfFilteredChainView", svc |-> "svc"]]
              /\ pc' = "chainsource"
              /\ ret' = ret
         ELSE /\ cc' = cc
              /\ pc' = "done"
              /\ ret' = Return(Nil, Nil, "NewCfFilteredChainView failed")
    /\ UNCHANGED << walletConfig, walletCfg, cleanUp, host, rpcCert, rpcConfig, dial,
                    nodeDatabase, svc, estimator, lnw >>
    /\ UNCHANGED << inputVars, conf, parseVars >>

\* the closure without nodeDatabase.Close()
NeutrinoCleanUp_NoClose == [kind |-> "func", stops |-> "svc", closes |-> "nothing"]

\* the closure of lines 165-168: what calling it stops and closes
NeutrinoCleanUp == [kind |-> "func", stops |-> "svc", closes |-> "nodeDatabase"]

\* walletConfig.ChainSource = chain.NewNeutrinoClient(...); cleanUp = func() {...}
Neutrino_SetChainSource ==
    /\ pc = "chainsource"
    /\ backend = "neutrino"
    /\ walletConfig' = [walletConfig EXCEPT !.ChainSource =
                          [kind |-> "NeutrinoClient", svc |-> "svc"]]
    /\ cleanUp' = NeutrinoCleanUp
    /\ pc' = "wc"
    /\ UNCHANGED << cc, walletCfg, host, rpcCert, rpcConfig, dial,
                    nodeDatabase, svc, estimator, lnw, ret >>
    /\ UNCHANGED << inputVars, conf, parseVars >>

(***************************************************************************)
(* The caller, after NewChainControlFromConfig has returned                *)
(***************************************************************************)
\* the caller runs the cleanup handle it was given: svc.Stop();
\* nodeDatabase.Close()
InvokeCleanUp ==
    /\ pc = "done"
    /\ ret.returned
    /\ ret.cleanUp # Nil
    /\ svc = "started"
    /\ svc' = IF ret.cleanUp.stops = "svc" THEN "stopped" ELSE svc
    /\ nodeDatabase' = IF ret.cleanUp.closes = "nodeDatabase" THEN "closed"
                       ELSE nodeDatabase
    /\ UNCHANGED << pc, cc, walletConfig, walletCfg, cleanUp, host, rpcCert,
                    rpcConfig, dial, estimator, lnw, ret >>
    /\ UNCHANGED << inputVars, conf, parseVars >>

(***************************************************************************)
(* Specification of one construction                                       *)
(***************************************************************************)
CertPath == <<"rpc.cert">>

CertFiles == { [state |-> "ok", content |-> <<1>>],
               [state |-> "ok", content |-> <<>>],
               [state |-> "readerr", content |-> <<>>],
               [state |-> "closeerr", content |-> <<1>>] }

RawCerts == { <<>>, <<"a", "b">>, <<"a">>, <<"z", "z">> }

\* the credentials a successful ParseRPCParams leaves in conf
BuildConf(b, h, raw, certPath) ==
    [RPCUser    |-> IF b = "neutrino" THEN <<>> ELSE <<"user">>,
     RPCPass    |-> IF b = "neutrino" THEN <<>> ELSE <<"pass">>,
     ZMQPath    |-> IF b = "bitcoind" THEN <<"tcp">> ELSE <<>>,
     RPCHost    |-> h,
     RawRPCCert |-> raw,
     RPCCert    |-> certPath,
     Dir        |-> <<"dir">>]

InitBuild ==
    /\ pc = "start"
    /\ cc = EmptyCC
    /\ walletConfig = [FeeEstimator |-> Nil, ChainSource |-> Nil]
    /\ walletCfg = Nil
    /\ cleanUp = Nil
    /\ host = <<>>
    /\ rpcCert = <<>>
    /\ rpcConfig = Nil
    /\ dial = NoDial
    /\ nodeDatabase = "none"
    /\ svc = "none"
    /\ estimator = "none"
    /\ lnw = "none"
    /\ ret = NoRet

Init ==
    /\ backend \in Backends
    /\ primaryChain \in ChainCodes
    /\ \E network \in Networks :
         /\ cfg = Cfg(primaryChain, network)
         /\ \E port \in RpcPorts :
              activeNetParams = [Name |-> network, rpcPort |-> port]
    /\ \E h \in RPCHosts, raw \in RawCerts, certPath \in {<<>>, CertPath} :
         /\ backend # "btcd" => raw = <<"a", "b">> /\ certPath = <<>>
         /\ backend = "neutrino" => h = <<"localhost">>
         /\ conf = BuildConf(backend, h, raw, certPath)
    /\ \/ fs = << >>
       \/ /\ backend = "btcd"
          /\ \E f \in CertFiles : fs = [p \in {CertPath} |-> f]
    /\ opened = {}
    /\ parseRet = NoParseRet
    /\ InitBuild

Next ==
    \/ SelectRoutingPolicy
    \/ Bitcoind_ResolveHost
    \/ Bitcoind_NewNotifier
    \/ Bitcoind_NewChainView
    \/ Bitcoind_NewChainSource
    \/ Bitcoind_FeeEstimator
    \/ Btcd_LoadTLS
    \/ Btcd_ResolveHost
    \/ Btcd_NewNotifier
    \/ Btcd_NewChainView
    \/ Btcd_NewChainSource
    \/ Btcd_FeeEstimator
    \/ Neutrino_MkdirAll
    \/ Neutrino_CreateDatabase
    \/ Neutrino_NewChainService
    \/ Neutrino_NewNotifier
    \/ Neutrino_NewChainView
    \/ Neutrino_SetChainSource
    \/ NewWalletController
    \/ NewLightningWallet
    \/ WalletStartup
    \/ InvokeCleanUp

Spec == Init /\ [][Next]_vars

(***************************************************************************)
(* Properties of NewChainControlFromConfig                                 *)
(***************************************************************************)
Failed == ret.returned /\ ret.err # "nil"

Succeeded == ret.returned /\ ret.err = "nil"

PrivateNetwork ==
    \/ cfg.Bitcoin.SimNet \/ cfg.Bitcoin.RegTest
    \/ cfg.Litecoin.SimNet \/ cfg.Litecoin.RegTest

IsStatic(e) == e.kind = "StaticFeeEstimator"

IsLive(e) == e.kind \in {"BitcoindFeeEstimator", "BtcdFeeEstimator"}

ChainDefaultRate ==
    IF primaryChain = "bitcoin" THEN "defaultBitcoinStaticFeeRate"
    ELSE "defaultLitecoinStaticFeeRate"

\* C1: on every backend, a run of NewChainControlFromConfig that returns a
\* non-nil error returns a nil chainControl and a nil cleanup function,
\* whichever step failed.
C1_FailureReturnsNothing ==
    Failed => ret.cc = Nil /\ ret.cleanUp = Nil

\* a neutrino construction that failed after its cleanUp closure was created
C1_Witness ==
    /\ Failed
    /\ backend = "neutrino"
    /\ cleanUp # Nil
    /\ ret.cleanUp = Nil

\* C2: when NewChainControlFromConfig fails, nothing it opened is left open:
\* the index database is closed, the sync service is stopped and a started
\* live fee estimator is stopped before the error is returned.
C2_FailureLeavesNothingOpen ==
    Failed => /\ nodeDatabase # "open"
              /\ svc # "started"
              /\ estimator # "started"

C4_FeeEstimatorTable ==
    Succeeded =>
        /\ (backend = "neutrino" \/ PrivateNetwork) =>
              ret.cc.feeEstimator = StaticFeeEstimator(ChainDefaultRate)
        /\ IsLive(ret.cc.feeEstimator) =>
              backend \in {"bitcoind", "btcd"} /\ ~PrivateNetwork

\* C5: a successful construction returns a nil cleanup handle on bitcoind and
\* btcd; on neutrino it returns a function, calling it stops the sync service
\* and closes the index database, and no other step stops the service or
\* closes the database.
C5_CleanUpHandle ==
    /\ [](Succeeded /\ backend \in {"bitcoind", "btcd"} => ret.cleanUp = Nil)
    /\ [](Succeeded /\ backend = "neutrino" => ret.cleanUp # Nil)
    /\ [](svc = "stopped" <=> nodeDatabase = "closed")
    /\ [][/\ InvokeCleanUp => svc' = "stopped" /\ nodeDatabase' = "closed"
          /\ (svc = "started" /\ svc' # "started") =>
                Succeeded /\ backend = "neutrino" /\ ret.cleanUp # Nil
          /\ (nodeDatabase = "open" /\ nodeDatabase' # "open") =>
                Succeeded /\ backend = "neutrino" /\ ret.cleanUp # Nil]_vars

\* the neutrino cleanup handle has been called
C5_Witness ==
    /\ Succeeded
    /\ backend = "neutrino"
    /\ ret.cleanUp # Nil
    /\ svc = "stopped"
    /\ nodeDatabase = "closed"

(***************************************************************************)
(* Credential discovery: the regular expressions                           *)
(***************************************************************************)
\* \s, for the whitespace the texts contain
IsSpace(c) == c \in {" ", "\n"}

\* the end of a maximal run \s* that starts at i
SkipSpace(t, i) ==
    CHOOSE j \in i..(Len(t) + 1) :
        /\ j = Len(t) + 1 \/ ~IsSpace(t[j])
        /\ \A k \in i..(j - 1) : IsSpace(t[k])

\* the end of a maximal run [^\s]* that starts at i
WordEnd(t, i) ==
    CHOOSE j \in i..(Len(t) + 1) :
        /\ j = Len(t) + 1 \/ IsSpace(t[j])
        /\ \A k \in i..(j - 1) : ~IsSpace(t[k])

\* the positions where (?m)^ matches
LineStarts(t) == {i \in 1..(Len(t) + 1) : i = 1 \/ t[i - 1] = "\n"}

NoMatch == [ok |-> FALSE, val |-> <<>>]

\* ^\s*key\s*=\s*([^\s]+) anchored at the line start i
MatchAt(t, key, i) ==
    LET j == SkipSpace(t, i)
        k == SkipSpace(t, j + 1)
        m == SkipSpace(t, k + 1)
        e == WordEnd(t, m)
    IN  IF /\ j <= Len(t) /\ t[j] = key
           /\ k <= Len(t) /\ t[k] = "="
           /\ m <= Len(t) /\ e > m
        THEN [ok |-> TRUE, val |-> SubSeq(t, m, e - 1)]
        ELSE NoMatch

\* regexp.FindSubmatch: the leftmost match; val is submatch 1
FindSubmatch(t, key) ==
    LET S == {i \in LineStarts(t) : MatchAt(t, key, i).ok}
    IN  IF S = {} THEN NoMatch
        ELSE MatchAt(t, key, CHOOSE i \in S : \A i2 \in S : i <= i2)

\* strings.Split(s, ":")
RECURSIVE Split(_)
Split(s) ==
    IF ~Contains(s, ":") THEN <<s>>
    ELSE LET i == CHOOSE i \in 1..Len(s) :
                      s[i] = ":" /\ \A k \in 1..(i - 1) : s[k] # ":"
         IN  <<SubSeq(s, 1, i - 1)>> \o Split(SubSeq(s, i + 1, Len(s)))

\* filepath.Join(dir, name)
JoinPath(dir, name) == dir \o <<"/">> \o <<name>>

\* path.Dir of a path with a directory part
PathDir(path) ==
    LET i == CHOOSE i \in 1..Len(path) :
                 path[i] = "/" /\ \A k \in (i + 1)..Len(path) : path[k] # "/"
    IN  SubSeq(path, 1, i - 1)

\* the switch without its regtest case
ChainDir_NoRegtest ==
    CASE activeNetParams.Name = "testnet3" -> <<"/", "testnet3", "/">>
      [] activeNetParams.Name = "testnet4" -> <<"/", "testnet4", "/">>
      [] OTHER -> <<"/">>

\* the switch on activeNetParams.Params.Name
ChainDir ==
    CASE activeNetParams.Name = "testnet3" -> <<"/", "testnet3", "/">>
      [] activeNetParams.Name = "testnet4" -> <<"/", "testnet4", "/">>
      [] activeNetParams.Name = "regtest"  -> <<"/", "regtest", "/">>
      [] OTHER -> <<"/">>

(***************************************************************************)
(* extractBitcoindRPCParams, extractBtcdRPCParams                          *)
(***************************************************************************)
ExtractFail(e, opens) ==
    [err |-> e, user |-> <<>>, pass |-> <<>>, zmq |-> <<>>, opens |-> opens]

ExtractOk(u, p, z, opens) ==
    [err |-> <<>>, user |-> u, pass |-> p, zmq |-> z, opens |-> opens]

\* the scan returning the two submatches in the wrong order
BitcoindKeyScan_Swapped(text, zmq, opens) ==
    LET userSubmatches == FindSubmatch(text, "rpcuser")
        passSubmatches == FindSubmatch(text, "rpcpassword")
    IN  IF ~userSubmatches.ok
        THEN ExtractFail(<<"unable to find rpcuser in config">>, opens)
        ELSE IF ~passSubmatches.ok
        THEN ExtractFail(<<"unable to find rpcpassword in config">>, opens)
        ELSE ExtractOk(passSubmatches.val, userSubmatches.val, zmq, opens)

\* lines 370-372: the cookie was read and splits into exactly two fields
CookieUsable(cookie) ==
    cookie.state = "ok" /\ Len(Split(cookie.content)) = 2

\* the rpcuser / rpcpassword scan of lines 378-403
BitcoindKeyScan(text, zmq, opens) ==
    LET userSubmatches == FindSubmatch(text, "rpcuser")
        passSubmatches == FindSubmatch(text, "rpcpassword")
    IN  IF ~userSubmatches.ok
        THEN ExtractFail(<<"unable to find rpcuser in config">>, opens)
        ELSE IF ~passSubmatches.ok
        THEN ExtractFail(<<"unable to find rpcpassword in config">>, opens)
        ELSE ExtractOk(userSubmatches.val, passSubmatches.val, zmq, opens)

extractBitcoindRPCParams(bitcoindConfigPath) ==
    LET f == FileAt(bitcoindConfigPath)
        configContents == f.content
        zmqPathSubmatches == FindSubmatch(configContents, "zmqpubrawblock")
        dataDirSubmatches == FindSubmatch(configContents, "datadir")
        dataDir == IF dataDirSubmatches.ok THEN dataDirSubmatches.val
                   ELSE PathDir(bitcoindConfigPath)
        cookiePath == dataDir \o ChainDir \o <<".cookie">>
        cookie == FileAt(cookiePath)
        splitCookie == Split(cookie.content)
        opens == {bitcoindConfigPath, cookiePath}
    IN  IF f.state = "missing"
        THEN ExtractFail(<<"open: no such file">>, {bitcoindConfigPath})
        ELSE IF f.state = "readerr"
        THEN ExtractFail(<<"read error">>, {bitcoindConfigPath})
        ELSE IF ~zmqPathSubmatches.ok
        THEN ExtractFail(<<"unable to find zmqpubrawblock in config">>,
                         {bitcoindConfigPath})
        ELSE IF CookieUsable(cookie)
        THEN ExtractOk(splitCookie[1], splitCookie[2], zmqPathSubmatches.val, opens)
        ELSE BitcoindKeyScan(configContents, zmqPathSubmatches.val, opens)

extractBtcdRPCParams(btcdConfigPath) ==
    LET f == FileAt(btcdConfigPath)
        configContents == f.content
        userSubmatches == FindSubmatch(configContents, "rpcuser")
        passSubmatches == FindSubmatch(configContents, "rpcpass")
        opens == {btcdConfigPath}
    IN  IF f.state = "missing"
        THEN ExtractFail(<<"open: no such file">>, opens)
        ELSE IF f.state = "readerr"
        THEN ExtractFail(<<"read error">>, opens)
        ELSE IF ~userSubmatches.ok
        THEN ExtractFail(<<"unable to find rpcuser in config">>, opens)
        ELSE IF ~passSubmatches.ok
        THEN ExtractFail(<<"unable to find rpcuser in config">>, opens)
        ELSE ExtractOk(userSubmatches.val, passSubmatches.val, <<>>, opens)

(***************************************************************************)
(* ParseRPCParams                                                          *)
(***************************************************************************)
\* the daemon name used in the error messages
DaemonName == IF primaryChain = "bitcoin" THEN "btcd" ELSE "ltcd"

\* cConfig: the chainConfig of the chain given as net
CConfig == IF primaryChain = "litecoin" THEN cfg.Litecoin ELSE cfg.Bitcoin

ParseResult(e, c, opens) == [err |-> e, conf |-> c, opens |-> opens]

\* line 41 with the test of ZMQPath left out of the partial check of line 47
BitcoindAnySet_IgnoresZMQPath ==
    conf.RPCUser # <<>> \/ conf.RPCPass # <<>>

\* line 41: all of RPCUser, RPCPass and ZMQPath are set
BitcoindAllSet ==
    conf.RPCUser # <<>> /\ conf.RPCPass # <<>> /\ conf.ZMQPath # <<>>

\* line 47: one of them is set
BitcoindAnySet ==
    conf.RPCUser # <<>> \/ conf.RPCPass # <<>> \/ conf.ZMQPath # <<>>

\* the simnet test reading the regtest flag instead
BitcoindRefusesDiscovery_RegTest == CConfig.RegTest

\* line 65: if cConfig.SimNet
BitcoindRefusesDiscovery == CConfig.SimNet

\* bitcoindConfig.ParseRPCParams: the error, the conf it leaves and the
\* files it opens
BitcoindParseRPCParams ==
    LET confFile == JoinPath(conf.Dir,
                       IF primaryChain = "bitcoin" THEN "bitcoin.conf"
                       ELSE "litecoin.conf")
        x == extractBitcoindRPCParams(confFile)
    IN  IF BitcoindAllSet
        THEN ParseResult(<<>>, conf, {})
        ELSE IF BitcoindAnySet
        THEN ParseResult(<<"please set all or none of rpcuser, rpcpass, and zmqpath",
                           DaemonName>>, conf, {})
        ELSE IF BitcoindRefusesDiscovery
        THEN ParseResult(<<"rpcuser and rpcpass must be set for simnet mode">>,
                         conf, {})
        ELSE IF x.err # <<>>
        THEN ParseResult(<<"unable to extract RPC credentials:">> \o x.err,
                         conf, x.opens)
        ELSE ParseResult(<<>>,
                         [conf EXCEPT !.RPCUser = x.user, !.RPCPass = x.pass,
                                      !.ZMQPath = x.zmq],
                         x.opens)

\* line 39 preceded by the simnet test, so that simnet refuses explicit
\* credentials too
BtcdAllSet_NotOnSimNet ==
    conf.RPCUser # <<>> /\ conf.RPCPass # <<>> /\ ~CConfig.SimNet

\* line 39: both RPCUser and RPCPass are set
BtcdAllSet == conf.RPCUser # <<>> /\ conf.RPCPass # <<>>

\* line 45: one of them is set
BtcdAnySet == conf.RPCUser # <<>> \/ conf.RPCPass # <<>>

\* line 62: if cConfig.SimNet
BtcdRefusesDiscovery == CConfig.SimNet

\* btcdConfig.ParseRPCParams
BtcdParseRPCParams ==
    LET confFile == JoinPath(conf.Dir,
                       IF primaryChain = "bitcoin" THEN "btcd.conf"
                       ELSE "ltcd.conf")
        x == extractBtcdRPCParams(confFile)
    IN  IF BtcdAllSet
        THEN ParseResult(<<>>, conf, {})
        ELSE IF BtcdAnySet
        THEN ParseResult(<<"please set both or neither of rpcuser, rpcpass",
                           DaemonName>>, conf, {})
        ELSE IF BtcdRefusesDiscovery
        THEN ParseResult(<<"rpcuser and rpcpass must be set for simnet mode">>,
                         conf, {})
        ELSE IF x.err # <<>>
        THEN ParseResult(<<"unable to extract RPC credentials:">> \o x.err,
                         conf, x.opens)
        ELSE ParseResult(<<>>,
                         [conf EXCEPT !.RPCUser = x.user, !.RPCPass = x.pass],
                         x.opens)

\* neutrinoConfig.ParseRPCParams
NeutrinoParseRPCParams == ParseResult(<<>>, conf, {})

ParseRPCParams(b, r) ==
    /\ backend = b
    /\ ~parseRet.returned
    /\ parseRet' = [returned |-> TRUE, err |-> r.err]
    /\ conf' = r.conf
    /\ opened' = opened \cup r.opens
    /\ UNCHANGED << inputVars, fs, buildVars >>

Bitcoind_ParseRPCParams == ParseRPCParams("bitcoind", BitcoindParseRPCParams)

Btcd_ParseRPCParams == ParseRPCParams("btcd", BtcdParseRPCParams)

Neutrino_ParseRPCParams == ParseRPCParams("neutrino", NeutrinoParseRPCParams)

(***************************************************************************)
(* Specification of one ParseRPCParams call                                *)
(***************************************************************************)
\* the most lines a node configuration file has
MaxLines == 3

\* the lines a node configuration file is made of
LineShapes ==
    { <<"rpcuser", "=", "alice">>,
      <<" ", "rpcuser", " ", "=", " ", "carol">>,
      <<"rpcpassword", "=", "secret">>,
      <<"rpcpass", "=", "hunter">>,
      <<"zmqpubrawblock", "=", "tcp">>,
      <<"datadir", "=", "d2">>,
      <<"#", "rpcuser", "=", "eve">>,
      <<"rpcuser", "=">> }

RECURSIVE JoinLines(_)
JoinLines(ls) ==
    IF ls = <<>> THEN <<>>
    ELSE IF Len(ls) = 1 THEN ls[1]
    ELSE ls[1] \o <<"\n">> \o JoinLines(Tail(ls))

Texts == { JoinLines(ls) : ls \in UNION { [1..n -> LineShapes] : n \in 0..MaxLines } }

\* a configuration file with every key, cookie or not
WellFormedText ==
    JoinLines(<< <<"rpcuser", "=", "alice">>, <<"rpcpassword", "=", "secret">>,
                 <<"rpcpass", "=", "hunter">>, <<"zmqpubrawblock", "=", "tcp">> >>)

ConfigFiles == { [state |-> "ok", content |-> t] : t \in Texts }
                 \cup { MissingFile, [state |-> "readerr", content |-> <<>>] }

CookieContents == { <<"bob", ":", "hunter2">>, <<"bob">>,
                    <<"a", ":", "b", ":", "c">>, <<":">> }

\* where a cookie file lies: nowhere, next to the configuration file, or in
\* the directory the datadir line names
Cookies == { [dir |-> <<>>, content |-> <<>>] }
           \cup { [dir |-> d, content |-> c] :
                    d \in { <<"dir">>, <<"d2">> }, c \in CookieContents }

ConfPath(b, chain) ==
    JoinPath(<<"dir">>,
             CASE b = "btcd" /\ chain = "bitcoin"  -> "btcd.conf"
               [] b = "btcd" /\ chain = "litecoin" -> "ltcd.conf"
               [] b # "btcd" /\ chain = "litecoin" -> "litecoin.conf"
               [] OTHER -> "bitcoin.conf")

\* where the daemon keeps its files for the active network, below its datadir
NetworkSubPath ==
    IF activeNetParams.Name \in {"testnet3", "testnet4", "regtest"}
    THEN <<"/", activeNetParams.Name, "/">>
    ELSE <<"/">>

\* the file system with one configuration file and one cookie
FileSystem(confPath, confFile, cookie) ==
    LET cookiePath == cookie.dir \o NetworkSubPath \o <<".cookie">>
        files == (IF confFile.state = "missing" THEN {} ELSE {confPath})
                 \cup (IF cookie.dir = <<>> THEN {} ELSE {cookiePath})
    IN  [p \in files |-> IF p = confPath THEN confFile
                         ELSE [state |-> "ok", content |-> cookie.content]]

InitParse ==
    /\ backend \in Backends
    /\ primaryChain \in {"bitcoin", "litecoin"}
    /\ \E network \in Networks :
         /\ cfg = Cfg(primaryChain, network)
         /\ activeNetParams = [Name |-> network, rpcPort |-> <<"8", "3", "3", "4">>]
    /\ \E u \in {<<>>, <<"user">>}, p \in {<<>>, <<"pass">>}, z \in {<<>>, <<"zmq">>} :
         /\ backend # "bitcoind" => z = <<>>
         /\ conf = [RPCUser |-> u, RPCPass |-> p, ZMQPath |-> z,
                    RPCHost |-> <<"localhost">>, RawRPCCert |-> <<>>,
                    RPCCert |-> <<>>, Dir |-> <<"dir">>]
    /\ LET discovery == /\ conf.RPCUser = <<>> /\ conf.RPCPass = <<>>
                        /\ conf.ZMQPath = <<>>
                        /\ backend # "neutrino"
                        /\ primaryChain = "bitcoin"
                        /\ activeNetParams.Name # "simnet"
           confPath == ConfPath(backend, primaryChain)
       IN  IF discovery
           THEN \E f \in ConfigFiles, c \in Cookies :
                  /\ backend = "btcd" => c.dir = <<>>
                  /\ fs = FileSystem(confPath, f, c)
           ELSE \E f \in { MissingFile, [state |-> "ok", content |-> WellFormedText] },
                   c \in { [dir |-> <<>>, content |-> <<>>],
                           [dir |-> <<"dir">>, content |-> <<"bob", ":", "hunter2">>] } :
                  fs = FileSystem(confPath, f, c)
    /\ opened = {}
    /\ parseRet = NoParseRet
    /\ InitBuild

NextParse ==
    \/ Bitcoind_ParseRPCParams
    \/ Btcd_ParseRPCParams
    \/ Neutrino_ParseRPCParams

SpecParse == InitParse /\ [][NextParse]_vars

(***************************************************************************)
(* Properties of ParseRPCParams and of credential discovery                *)
(***************************************************************************)
\* the step in which ParseRPCParams runs
ParseStep == ~parseRet.returned /\ parseRet'.returned

FullNode == backend \in {"bitcoind", "btcd"}

\* the credential fields the variant requires
Required ==
    CASE backend = "bitcoind" -> {"RPCUser", "RPCPass", "ZMQPath"}
      [] backend = "btcd"     -> {"RPCUser", "RPCPass"}
      [] OTHER                -> {}

SetFields == {f \in Required : conf[f] # <<>>}

NoneSet == SetFields = {}

AllSet == SetFields = Required

SomeButNotAllSet == SetFields # {} /\ SetFields # Required

\* the configuration file ParseRPCParams would read, and its text
TheConfFile == FileAt(ConfPath(backend, primaryChain))

ConfText == TheConfFile.content

\* the lines of a text
RECURSIVE Lines(_)
Lines(t) ==
    IF ~Contains(t, "\n") THEN <<t>>
    ELSE LET i == CHOOSE i \in 1..Len(t) :
                      t[i] = "\n" /\ \A k \in 1..(i - 1) : t[k] # "\n"
         IN  <<SubSeq(t, 1, i - 1)>> \o Lines(SubSeq(t, i + 1, Len(t)))

\* line l, taken alone, has the form  key = value
IsKeyValueLine(l, key) == MatchAt(l, key, 1).ok

\* line l begins with the key and ends before its "=" or before its value
IsDanglingLine(l, key) ==
    LET j == SkipSpace(l, 1)
        k == SkipSpace(l, j + 1)
    IN  /\ j <= Len(l) /\ l[j] = key
        /\ \/ k = Len(l) + 1
           \/ l[k] = "=" /\ SkipSpace(l, k + 1) = Len(l) + 1

HasKeyValueLine(t, key) ==
    \E i \in 1..Len(Lines(t)) : IsKeyValueLine(Lines(t)[i], key)

FirstKeyValueLine(t, key) ==
    CHOOSE i \in 1..Len(Lines(t)) :
        /\ IsKeyValueLine(Lines(t)[i], key)
        /\ \A k \in 1..(i - 1) : ~IsKeyValueLine(Lines(t)[k], key)

\* the value of the first  key = value  line
FirstValue(t, key) == MatchAt(Lines(t)[FirstKeyValueLine(t, key)], key, 1).val

\* no line before the first  key = value  line leaves the key dangling
NoDanglingBefore(t, key) ==
    \A k \in 1..(FirstKeyValueLine(t, key) - 1) : ~IsDanglingLine(Lines(t)[k], key)

\* the cookie file of the event backend: <datadir><network-subpath>.cookie
CookieDataDir ==
    IF HasKeyValueLine(ConfText, "datadir") THEN FirstValue(ConfText, "datadir")
    ELSE conf.Dir

TheCookie == FileAt(CookieDataDir \o NetworkSubPath \o <<".cookie">>)

\* the cookie is  user:password  with exactly one colon
CookieHasTwoFields ==
    /\ TheCookie.state = "ok"
    /\ Cardinality({i \in 1..Len(TheCookie.content) : TheCookie.content[i] = ":"}) = 1

CookieColon == CHOOSE i \in 1..Len(TheCookie.content) : TheCookie.content[i] = ":"

CookieUser == SubSeq(TheCookie.content, 1, CookieColon - 1)

CookiePass == SubSeq(TheCookie.content, CookieColon + 1, Len(TheCookie.content))

\* ParseRPCParams is about to run discovery on a readable configuration file
Discovers(b) ==
    /\ ParseStep
    /\ backend = b
    /\ NoneSet
    /\ ~CConfig.SimNet
    /\ TheConfFile.state = "ok"

\* C6: ParseRPCParams returns an error whenever some but not all of the
\* variant's required credential fields are set, on every network and
\* whatever is on disk.
C6_PartialCredentialsRejected ==
    [][ParseStep /\ SomeButNotAllSet => parseRet'.err # <<>>]_vars

\* bitcoind with only ZMQPath set, next to a well-formed configuration file
\* and cookie, was refused
C6_Witness ==
    /\ parseRet.returned
    /\ parseRet.err # <<>>
    /\ backend = "bitcoind"
    /\ SetFields = {"ZMQPath"}
    /\ TheConfFile.state = "ok"
    /\ opened = {}

\* C7: when every required credential field is set, ParseRPCParams succeeds,
\* leaves the credential fields as supplied and opens no file, on every
\* network including simnet.
C7_FullCredentialsKept ==
    [][ParseStep /\ AllSet =>
          /\ parseRet'.err = <<>>
          /\ conf' = conf
          /\ opened' = opened]_vars

\* btcd on simnet with both credentials set, next to a configuration file
C7_Witness ==
    /\ parseRet.returned
    /\ parseRet.err = <<>>
    /\ backend = "btcd"
    /\ AllSet
    /\ CConfig.SimNet
    /\ TheConfFile.state = "ok"
    /\ opened = {}

\* C8 as stated: on a full-node variant with no credential field set and the
\* network simnet or regtest, ParseRPCParams fails and reads neither the
\* configuration file nor the cookie file.
C8_Original ==
    [][ParseStep /\ FullNode /\ NoneSet /\ (CConfig.SimNet \/ CConfig.RegTest) =>
          /\ parseRet'.err # <<>>
          /\ opened' = opened]_vars

\* C8 as amended: on a full-node variant with no credential field set and the
\* network simnet, ParseRPCParams fails, leaves conf alone and reads neither
\* the configuration file nor the cookie file.
C8_SimNetRefusesDiscovery ==
    [][ParseStep /\ FullNode /\ NoneSet /\ CConfig.SimNet =>
          /\ parseRet'.err # <<>>
          /\ conf' = conf
          /\ opened' = opened]_vars

\* bitcoind on simnet with no credentials, next to a well-formed
\* configuration file, was refused without a read
C8_Witness ==
    /\ parseRet.returned
    /\ parseRet.err # <<>>
    /\ backend = "bitcoind"
    /\ NoneSet
    /\ CConfig.SimNet
    /\ TheConfFile = [state |-> "ok", content |-> WellFormedText]
    /\ opened = {}

C10_Original ==
    [][/\ Discovers("bitcoind") \/ Discovers("btcd")
       /\ TheCookie.state = "missing"
       /\ HasKeyValueLine(ConfText, "rpcuser")
       /\ HasKeyValueLine(ConfText, "rpcpassword")
       =>
       /\ parseRet'.err = <<>>
       /\ conf'.RPCUser = FirstValue(ConfText, "rpcuser")
       /\ conf'.RPCPass = FirstValue(ConfText, "rpcpassword")]_vars

\* the password key of each daemon's configuration file
PassKey == IF backend = "btcd" THEN "rpcpass" ELSE "rpcpassword"

\* C10 as amended: with an rpcuser line and a line of the variant's password
\* key (rpcpassword for bitcoind, rpcpass for btcd), for bitcoind also a
\* zmqpubrawblock line, no cookie file, and no earlier line that leaves one
\* of the two keys dangling, discovery succeeds and returns the values of the
\* first line of each key.
C10_KeyScan ==
    [][/\ Discovers("bitcoind") \/ Discovers("btcd")
       /\ TheCookie.state = "missing"
       /\ HasKeyValueLine(ConfText, "rpcuser")
       /\ HasKeyValueLine(ConfText, PassKey)
       /\ backend = "bitcoind" => HasKeyValueLine(ConfText, "zmqpubrawblock")
       /\ NoDanglingBefore(ConfText, "rpcuser")
       /\ NoDanglingBefore(ConfText, PassKey)
       =>
       /\ parseRet'.err = <<>>
       /\ conf'.RPCUser = FirstValue(ConfText, "rpcuser")
       /\ conf'.RPCPass = FirstValue(ConfText, PassKey)]_vars

\* bitcoind discovery returned alice and secret from the key scan of a text
\* with the lines rpcuser=alice and rpcpassword=secret, without a cookie file
C10_Witness ==
    /\ parseRet.returned
    /\ parseRet.err = <<>>
    /\ backend = "bitcoind"
    /\ TheCookie.state = "missing"
    /\ conf.RPCUser = <<"alice">>
    /\ conf.RPCPass = <<"secret">>
    /\ \E i, j \in 1..Len(Lines(ConfText)) :
          /\ Lines(ConfText)[i] = <<"rpcuser", "=", "alice">>
          /\ Lines(ConfText)[j] = <<"rpcpassword", "=", "secret">>

\* no line of the text begins with the key
KeyAbsent(t, key) ==
    \A i \in 1..Len(Lines(t)) :
        LET l == Lines(t)[i]
            j == SkipSpace(l, 1)
        IN  ~(j <= Len(l) /\ l[j] = key)

\* the keys the scan of this call needs: the user and password keys unless a
\* cookie supplies them, and for bitcoind the publish-path key
ScanKeys ==
    IF backend = "btcd" THEN {"rpcuser", "rpcpass"}
    ELSE {"zmqpubrawblock"}
         \cup (IF CookieHasTwoFields THEN {} ELSE {"rpcuser", "rpcpassword"})

AbsentKeys == {k \in ScanKeys : KeyAbsent(ConfText, k)}

\* the error ParseRPCParams returns when discovery reports that key missing
MissingKeyError(key) ==
    << "unable to extract RPC credentials:",
       CASE key = "rpcuser"        -> "unable to find rpcuser in config"
         [] key = "rpcpass"        -> "unable to find rpcpass in config"
         [] key = "rpcpassword"    -> "unable to find rpcpassword in config"
         [] key = "zmqpubrawblock" -> "unable to find zmqpubrawblock in config" >>

\* every key the scan needs is either absent or given by a  key = value  line
KeysAbsentOrGiven ==
    \A k \in ScanKeys : KeyAbsent(ConfText, k) \/ HasKeyValueLine(ConfText, k)

\* C11: in the key=value scan of both full-node variants, whenever a required
\* key is absent from the configuration text (and the others are given),
\* discovery fails with an error that names a key that is missing.
C11_MissingKeyNamed ==
    [][/\ Discovers("bitcoind") \/ Discovers("btcd")
       /\ KeysAbsentOrGiven
       /\ AbsentKeys # {}
       =>
       \E k \in AbsentKeys : parseRet'.err = MissingKeyError(k)]_vars

(***************************************************************************)
(* Properties of the bitcoind host resolution                              *)
(***************************************************************************)
\* the port two below a canonical RPC port, written out per port
TwoBelow(port) ==
    CASE port = <<"8", "3", "3", "4">>      -> <<"8", "3", "3", "2">>
      [] port = <<"1", "8", "3", "3", "4">> -> <<"1", "8", "3", "3", "2">>
      [] OTHER                              -> <<"?">>

HasPort(h) == \E i \in 1..Len(h) : h[i] = ":"

\* the host resolution of the bitcoind builder has produced an address
HostResolved == backend = "bitcoind" /\ rpcConfig # Nil

DerivedAddress == conf.RPCHost \o <<":">> \o TwoBelow(activeNetParams.rpcPort)

AlternateAddress == conf.RPCHost \o <<":", "1", "8", "4", "4", "3">>

\* every client created so far was given the address a
ClientsUse(a) ==
    /\ rpcConfig.Host = a
    /\ cc.chainNotifier # Nil => cc.chainNotifier.Host = a
    /\ cc.chainView # Nil => cc.chainView.Host = a
    /\ walletConfig.ChainSource # Nil => walletConfig.ChainSource.Host = a
    /\ IsLive(cc.feeEstimator) => cc.feeEstimator.Host = a

ProbeFailed == dial.attempted /\ dial.outcome # "connected"

\* C12 as stated: in the bitcoind builder a host without ':' always resolves
\* to host:(P-2) for the network's canonical port P, a host with ':' is used
\* verbatim, and the notifier, the chain view, the chain source and the live
\* fee estimator are given that address.
C12_Original ==
    HostResolved =>
        ClientsUse(IF HasPort(conf.RPCHost) THEN conf.RPCHost
                   ELSE DerivedAddress)

\* C12: in the bitcoind builder a host with ':' is used verbatim; a host
\* without ':' resolves to host:(P-2) for the network's canonical port P,
\* except when the regtest probe of that address failed, where it resolves to
\* host:18443; the notifier, the chain view, the chain source and the live
\* fee estimator are all given the resolved address.
C12_HostResolution ==
    HostResolved =>
        ClientsUse(IF HasPort(conf.RPCHost) THEN conf.RPCHost
                   ELSE IF ProbeFailed THEN AlternateAddress
                   ELSE DerivedAddress)

\* a finished construction whose four clients were given localhost:8332,
\* derived from the canonical port 8334
C12_Witness ==
    /\ HostResolved
    /\ Succeeded
    /\ conf.RPCHost = <<"localhost">>
    /\ activeNetParams.rpcPort = <<"8", "3", "3", "4">>
    /\ cc.chainNotifier.Host = <<"localhost", ":", "8", "3", "3", "2">>
    /\ cc.chainView.Host = <<"localhost", ":", "8", "3", "3", "2">>
    /\ walletConfig.ChainSource.Host = <<"localhost", ":", "8", "3", "3", "2">>
    /\ IsLive(cc.feeEstimator)
    /\ cc.feeEstimator.Host = <<"localhost", ":", "8", "3", "3", "2">>

(***************************************************************************)
(* Properties of the btcd TLS loading                                      *)
(***************************************************************************)
\* the step of the btcd builder that loads the certificate
TLSStep == backend = "btcd" /\ pc = "tls" /\ pc' # "tls"

\* no notifier and no RPC client exists
NoClientCreated ==
    /\ cc.chainNotifier = Nil
    /\ cc.chainView = Nil
    /\ walletConfig.ChainSource = Nil

\* C13: the btcd builder proceeds past TLS loading only with non-empty
\* certificate bytes, from the inline hex certificate or from the certificate
\* file; otherwise (nothing configured, undecodable, unreadable or empty
\* material) the construction fails before a notifier or RPC client exists.
C13_TLSMaterialRequired ==
    [][TLSStep =>
         \/ pc' = "host" /\ rpcCert' # <<>>
         \/ Failed' /\ NoClientCreated']_vars

(***************************************************************************)
(* Properties of the fee estimator's consumers                             *)
(***************************************************************************)
\* C14: on every successful construction the fee estimator in the wallet
\* controller's configuration, the one in the lightning wallet's
\* configuration and the bundle's feeEstimator are the same estimator, also
\* when a live estimator was chosen.
C14_OneEstimator ==
    Succeeded =>
        /\ ret.cc.msgSigner.cfg.FeeEstimator = ret.cc.feeEstimator
        /\ ret.cc.wallet.Cfg.FeeEstimator = ret.cc.feeEstimator

(***************************************************************************)
(* Properties of the regtest probe                                         *)
(***************************************************************************)
\* the step of the bitcoind builder that resolves the host
HostStep == backend = "bitcoind" /\ pc = "host" /\ pc' # "host"

OnRegtest == activeNetParams.Name = "regtest"

\* C15: the bitcoind builder dials the derived address only when the host
\* has no ':' and the network is regtest; whatever the dial returns, the
\* construction continues without an error: a successful dial is closed and
\* the derived port kept, a failed dial (error or nil connection) replaces
\* the port by 18443.  Off regtest, or with a ':' in the host, nothing is
\* dialled and the port is not replaced.
C15_RegtestProbe ==
    [][HostStep =>
         /\ dial'.attempted =>
              /\ ~HasPort(conf.RPCHost) /\ OnRegtest
              /\ pc' = "notifier" /\ ~ret'.returned
              /\ dial'.outcome = "connected" =>
                   dial'.conn = "closed" /\ host' = DerivedAddress
              /\ dial'.outcome \in {"error", "nilconn"} =>
                   host' = AlternateAddress
         /\ ~OnRegtest \/ HasPort(conf.RPCHost) =>
              /\ ~dial'.attempted
              /\ pc' = "notifier" =>
                   host' = IF HasPort(conf.RPCHost) THEN conf.RPCHost
                           ELSE DerivedAddress]_vars

\* a construction that went on to create its notifier at localhost:18443
\* after the probe returned a nil connection without an error
C15_Witness ==
    /\ backend = "bitcoind"
    /\ dial.attempted
    /\ dial.outcome = "nilconn"
    /\ OnRegtest
    /\ host = <<"localhost", ":", "1", "8", "4", "4", "3">>
    /\ cc.chainNotifier # Nil
    /\ cc.chainNotifier.Host = host

(***************************************************************************)
(* Credential completeness                                                 *)
(***************************************************************************)
\* C16: after a ParseRPCParams call on bitcoind or btcd that returns nil,
\* every credential field the variant requires is non-empty, whether it was
\* supplied, read from the cookie or found by the key scan; after a call that
\* returns an error the credential fields are unchanged.
C16_CredentialsComplete ==
    [][ParseStep /\ FullNode =>
         IF parseRet'.err = <<>>
         THEN \A f \in Required : conf'[f] # <<>>
         ELSE \A f \in Required : conf'[f] = conf[f]]_vars

====
